---- MODULE Spec2Model ----
(***************************************************************************)
(* Model of logxi's HappyDevFormatter (v1/happyDevFormatter.go): theme     *)
(* parsing, key validation, the column-aware field writer, the call-stack  *)
(* context and Format itself.                                              *)
(*                                                                         *)
(* Text is a sequence of one-character strings ("a", " ", "\n").  An ANSI  *)
(* escape sequence is one element whose text starts with "^[" (it is       *)
(* written with buf.WriteString, never through writeString, so only its    *)
(* presence matters, not its length).                                      *)
(***************************************************************************)
EXTENDS Integers, Sequences, FiniteSets, TLC

VARIABLES
    themeSrc,     \* the theme configuration string handed to parseTheme
    theme,        \* package variable theme (*colorScheme)
    themeLoaded,  \* FALSE while the package variable theme is still nil
    isPretty,     \* package variable isPretty
    maxCol,       \* package variable maxCol
    col,          \* HappyDevFormatter.col, one per formatter instance
    call          \* the Format invocations in progress: locals and position

vars == <<themeSrc, theme, themeLoaded, isPretty, maxCol, col, call>>

-----------------------------------------------------------------------------
(* Bounds of the model *)

MaxEntries == 3     \* entries in a theme configuration string
MaxArgs == 4        \* length of the args list of one Format call
MaxStack == 6       \* frames of the call stack seen by getLevelContext
NarrowCol == 12     \* a small maxCol, so that fields wrap
WideCol == 60       \* a maxCol no record of the model reaches

-----------------------------------------------------------------------------
(* Strings *)

Range(s) == {s[n] : n \in 1..Len(s)}

\* position of the first occurrence of sep in s, 0 when there is none
RECURSIVE IndexOf(_, _, _)
IndexOf(s, sep, from) ==
    IF from > Len(s) THEN 0
    ELSE IF s[from] = sep THEN from
    ELSE IndexOf(s, sep, from + 1)

\* strings.Split(s, sep) for a one-character sep: always at least one piece
RECURSIVE Split(_, _)
Split(s, sep) ==
    LET p == IndexOf(s, sep, 1) IN
    IF p = 0 THEN <<s>>
    ELSE <<SubSeq(s, 1, p - 1)>> \o Split(SubSeq(s, p + 1, Len(s)), sep)

RECURSIVE TrimLeft(_, _)
TrimLeft(s, cutset) ==
    IF s # <<>> /\ Head(s) \in cutset THEN TrimLeft(Tail(s), cutset) ELSE s

RECURSIVE TrimRight(_, _)
TrimRight(s, cutset) ==
    IF s # <<>> /\ s[Len(s)] \in cutset
    THEN TrimRight(SubSeq(s, 1, Len(s) - 1), cutset)
    ELSE s

\* strings.Trim(s, cutset)
Trim(s, cutset) == TrimRight(TrimLeft(s, cutset), cutset)

-----------------------------------------------------------------------------
(* ansi package: escape sequences *)

Reset == <<"^[0m">>

\* ansi.ColorCode(style): nothing for the empty style and for "off", the
\* reset sequence for "reset", otherwise the escape sequence of the style
ColorCode(style) ==
    IF style = <<>> \/ style = <<"off">> THEN <<>>
    ELSE IF style = <<"reset">> THEN Reset
    ELSE IF style = <<"red">> THEN <<"^[31m">>
    ELSE IF style = <<"blue">> THEN <<"^[34m">>
    ELSE IF style = <<"cyan+h">> THEN <<"^[96m">>
    ELSE IF style = <<"blue+h">> THEN <<"^[94m">>
    ELSE IF style = <<"yellow+h">> THEN <<"^[93m">>
    ELSE IF style = <<"green+h">> THEN <<"^[92m">>
    ELSE IF style = <<"red+h">> THEN <<"^[91m">>
    ELSE <<"^[m">>

-----------------------------------------------------------------------------
(* Theme parsing.  A theme string is a sequence whose elements are the     *)
(* characters "," and "=" and whole words (slot names, style names).       *)

\* m[key] of a Go map[string]string: the empty string for a missing key
Lookup(m, key) == IF key \in DOMAIN m THEN m[key] ELSE <<>>

MapSet(m, key, value) ==
    [x \in DOMAIN m \cup {key} |-> IF x = key THEN value ELSE m[x]]

EmptyMap == [x \in {} |-> <<>>]

RECURSIVE parsePairs(_, _)
parsePairs(pairs, m) ==
    IF pairs = <<>> THEN m
    ELSE LET pair == Head(pairs)
             parts == Split(pair, "=")
         IN  IF pair = <<>> THEN parsePairs(Tail(pairs), m)
             ELSE IF Len(parts) = 1
                  THEN parsePairs(Tail(pairs), MapSet(m, parts[1], <<>>))
             ELSE IF Len(parts) = 2
                  THEN parsePairs(Tail(pairs), MapSet(m, parts[1], parts[2]))
             ELSE parsePairs(Tail(pairs), m)

parseKVList(s, separator) == parsePairs(Split(s, separator), EmptyMap)

\* the closure color of parseTheme: the slot's own code, else the wildcard
color(m, key, wildcard) ==
    LET c == ColorCode(Lookup(m, key))
    IN  IF c = <<>> THEN wildcard ELSE c

\* the value of a slot after the wildcard seeding of parseTheme
seed(wildcard) == IF wildcard # Reset THEN wildcard ELSE <<>>

parseTheme(s) ==
    LET m == parseKVList(s, ",")
        wildcard == color(m, <<"*">>, <<>>)
        cs == [Key |-> seed(wildcard), Value |-> seed(wildcard),
               Misc |-> seed(wildcard), Source |-> seed(wildcard),
               Debug |-> seed(wildcard), Warn |-> seed(wildcard),
               Info |-> seed(wildcard), Error |-> seed(wildcard)]
    IN  [cs EXCEPT !.Key    = color(m, <<"key">>, wildcard),
                   !.Value  = color(m, <<"value">>, wildcard),
                   !.Misc   = color(m, <<"misc">>, wildcard),
                   !.Source = color(m, <<"source">>, wildcard),
                   !.Debug  = color(m, <<"DBG">>, wildcard),
                   !.Warn   = color(m, <<"WRN">>, wildcard),
                   !.Info   = color(m, <<"INF">>, wildcard),
                   !.Error  = color(m, <<"ERR">>, wildcard)]

\* the name of each slot of colorScheme in a theme string
SlotName ==
    [Key |-> <<"key">>, Value |-> <<"value">>, Misc |-> <<"misc">>,
     Source |-> <<"source">>, Debug |-> <<"DBG">>, Warn |-> <<"WRN">>,
     Info |-> <<"INF">>, Error |-> <<"ERR">>]

Slots == DOMAIN SlotName

\* the default dark scheme
DefaultTheme ==
    <<"key", "=", "cyan+h", ",", "value", ",", "misc", "=", "blue+h", ",",
      "DBG", ",", "WRN", "=", "yellow+h", ",", "INF", "=", "green+h", ",",
      "ERR", "=", "red+h">>

-----------------------------------------------------------------------------
(* Values of a log call.  An argument is a string, a non-string (an int,   *)
(* s holding its %v text) or an error with its message and stack text.     *)

StrArg(s) == [kind |-> "str", s |-> s, stack |-> <<>>]
IntArg(s) == [kind |-> "int", s |-> s, stack |-> <<>>]
ErrArg(msg, stack) == [kind |-> "err", s |-> msg, stack |-> stack]

\* fmt.Sprintf("%v", value)
Sprint(value) == value.s

assignmentChar == <<":", " ">>
indent == <<" ", " ">>
Separator == <<" ">>

timeKey == <<"t">>
levelKey == <<"l">>
nameKey == <<"n">>
messageKey == <<"m">>
ReservedKeys == {timeKey, levelKey, nameKey, messageKey}

\* the field under which the canonical encoder reports an odd args list
warnImbalancedKey == <<"IMBALANCED_PAIRS=>">>

Digit == <<"0", "1", "2", "3", "4", "5", "6", "7", "8", "9">>

\* placeholder key for the pair whose key, at (0-based) index i, is no string
badKeyAtIndex(i) == <<"!", Digit[i + 1]>>

\* isReservedKey(k): err when k is not a string
isReservedKey(k) ==
    [err |-> k.kind # "str",
     isReserved |-> k.kind = "str" /\ k.s \in ReservedKeys]

\* string(json.Marshal(key)) == `"` + key + `"`: no character is escaped
IsSimpleKey(key) == Range(key) \cap {"\"", "\\", "\n"} = {}

Levels == {"Debug", "Info", "Warn", "Error", "Fatal"}

\* entry[levelKey]: the abbreviation of the level
LevelText(level) ==
    CASE level = "Debug" -> <<"D", "B", "G">>
      [] level = "Info"  -> <<"I", "N", "F">>
      [] level = "Warn"  -> <<"W", "R", "N">>
      [] level = "Error" -> <<"E", "R", "R">>
      [] OTHER           -> <<"F", "T", "L">>

Timestamp == <<"1", "2", ":", "0", "0">>
Name == <<"a", "p", "p">>

\* the user fields of the canonical entry, pair by pair (a later pair with
\* the same key replaces the earlier one)
RECURSIVE entryPairs(_, _, _)
entryPairs(args, i, m) ==
    IF i + 1 >= Len(args) THEN m
    ELSE LET key == IF args[i + 1].kind = "str" THEN args[i + 1].s
                    ELSE badKeyAtIndex(i)
         IN  entryPairs(args, i + 2, MapSet(m, key, args[i + 2]))

\* JSONFormatter.LogEntry: the canonical field mapping of the call
LogEntry(level, msg, args) ==
    LET base == [x \in ReservedKeys |->
                    IF x = timeKey THEN StrArg(Timestamp)
                    ELSE IF x = levelKey THEN StrArg(LevelText(level))
                    ELSE IF x = nameKey THEN StrArg(Name)
                    ELSE StrArg(msg)]
        m == entryPairs(args, 0, base)
    IN  IF Len(args) % 2 = 1
        THEN MapSet(m, warnImbalancedKey, args[Len(args)])
        ELSE m

-----------------------------------------------------------------------------
(* The column-aware writer.  b is the pair of the output buffer and the    *)
(* column cursor hd.col.                                                   *)

writeString(b, s) == [buf |-> b.buf \o s, col |-> b.col + Len(s)]

bufWrite(b, s) == [b EXCEPT !.buf = @ \o s]

writeKey(b, key) ==
    LET b1 == writeString(b, Separator)
    IN  IF key = <<>> THEN b1
        ELSE bufWrite(writeString(writeString(bufWrite(b1, theme.Key), key),
                                  assignmentChar),
                      Reset)

\* the condition of offset under which the field starts a new line
offsetWraps(c, key, val) ==
    (isPretty /\ key # <<>>) \/ c + Len(key) + 1 + Len(val) >= maxCol

offset(b, clr, key, value) ==
    LET val == Trim(value, {"\n", " "})
        b1 == IF offsetWraps(b.col, key, val)
              THEN writeString([buf |-> b.buf \o <<"\n">>, col |-> 0], indent)
              ELSE b
        b2 == writeKey(b1, key)
        b3 == IF clr # <<>> THEN bufWrite(b2, clr) ELSE b2
        b4 == writeString(b3, val)
    IN  IF clr # <<>> THEN bufWrite(b4, Reset) ELSE b4

writeError(b, key, err) ==
    offset(b, theme.Error, key, err.s \o <<"\n">> \o err.stack)

set(b, key, value, clr) ==
    IF value.kind = "err" THEN writeError(b, key, value)
    ELSE offset(b, clr, key, Sprint(value))

-----------------------------------------------------------------------------
(* Call-stack context.  A trace is the sequence of frames of                *)
(* stack.Trace().TrimRuntime(), innermost first; a frame is TRUE when its  *)
(* source context can be produced.  Frame n of the sequence is the frame   *)
(* with Go index n - 1.                                                    *)

FrameTag == <<"@0", "@1", "@2", "@3", "@4", "@5", "@6", "@7", "@8", "@9">>

\* newCallstackInfo(frame, lines).String(...): empty when unresolvable
ciString(trace, n) == IF trace[n] THEN <<FrameTag[n]>> ELSE <<>>

\* errorWalk with the walk ended at the first frame without source context
RECURSIVE errorWalkBreak(_, _, _)
errorWalkBreak(trace, n, acc) ==
    IF n > Len(trace) THEN acc
    ELSE LET ctx == ciString(trace, n)
             seen == Append(acc.walked, n - 1)
         IN  IF n - 1 < 3 THEN errorWalkBreak(trace, n + 1, acc)
             ELSE IF ctx = <<>> THEN [acc EXCEPT !.walked = seen]
             ELSE errorWalkBreak(trace, n + 1,
                                 [context |-> acc.context \o ctx \o <<"\n">>,
                                  walked |-> seen])

\* the loop of the default branch, from frame n on
RECURSIVE errorWalk(_, _, _)
errorWalk(trace, n, acc) ==
    IF n > Len(trace) THEN acc
    ELSE LET ctx == ciString(trace, n)
             seen == Append(acc.walked, n - 1)
         IN  IF n - 1 < 3 THEN errorWalk(trace, n + 1, acc)
             ELSE IF ctx = <<>>
                  THEN errorWalk(trace, n + 1, [acc EXCEPT !.walked = seen])
             ELSE errorWalk(trace, n + 1,
                            [context |-> acc.context \o ctx \o <<"\n">>,
                             walked |-> seen])

\* the loop of the warn branch, from frame n on
RECURSIVE warnWalk(_, _)
warnWalk(trace, n) ==
    IF n > Len(trace) THEN [context |-> <<>>, walked |-> <<>>]
    ELSE IF n - 1 < 4 THEN warnWalk(trace, n + 1)
    ELSE [context |-> ciString(trace, n), walked |-> <<n - 1>>]

\* walked: the Go indices of the frames a callstackInfo was built for
getLevelContext(level, trace) ==
    CASE level = "Debug" ->
            [context |-> <<>>, color |-> theme.Debug, walked |-> <<>>]
      [] level = "Info" ->
            [context |-> <<>>, color |-> theme.Info, walked |-> <<>>]
      [] level = "Warn" ->
            LET w == warnWalk(trace, 1)
            IN  [context |-> w.context, color |-> theme.Warn,
                 walked |-> w.walked]
      [] OTHER ->
            LET w == errorWalk(trace, 1, [context |-> <<>>, walked |-> <<>>])
            IN  [context |-> w.context, color |-> theme.Error,
                 walked |-> w.walked]

-----------------------------------------------------------------------------
(* Format, step by step.  st is the record of one invocation.              *)

\* validateKeys with a reserved key only reported, as a non-string key is
RECURSIVE validateKeysReport(_, _, _)
validateKeysReport(args, i, diag) ==
    IF i >= Len(args) THEN [outcome |-> "ok", diag |-> diag]
    ELSE LET r == isReservedKey(args[i + 1])
         IN  IF r.err THEN validateKeysReport(args, i + 2, Append(diag, i))
             ELSE IF r.isReserved THEN validateKeysReport(args, i + 2, diag)
             ELSE IF ~IsSimpleKey(args[i + 1].s)
                  THEN [outcome |-> "panic", diag |-> diag]
             ELSE validateKeysReport(args, i + 2, diag)

\* the key checks at the head of Format, from (0-based) index i on
RECURSIVE validateKeys(_, _, _)
validateKeys(args, i, diag) ==
    IF i >= Len(args) THEN [outcome |-> "ok", diag |-> diag]
    ELSE LET r == isReservedKey(args[i + 1])
         IN  IF r.err THEN validateKeys(args, i + 2, Append(diag, i))
             ELSE IF r.isReserved THEN [outcome |-> "fatal", diag |-> diag]
             ELSE IF ~IsSimpleKey(args[i + 1].s)
                  THEN [outcome |-> "panic", diag |-> diag]
             ELSE validateKeys(args, i + 2, diag)

\* buildOrder with each key put in front of the list instead of behind it
RECURSIVE buildOrderPrepend(_, _)
buildOrderPrepend(args, i) ==
    IF i >= Len(args) THEN <<>>
    ELSE IF i + 1 >= Len(args) THEN buildOrderPrepend(args, i + 2)
    ELSE IF args[i + 1].kind = "str"
         THEN buildOrderPrepend(args, i + 2) \o <<args[i + 1].s>>
    ELSE buildOrderPrepend(args, i + 2) \o <<badKeyAtIndex(i)>>

\* buildOrder with the pair of a non-string key left out of the list
RECURSIVE buildOrderSkipBad(_, _)
buildOrderSkipBad(args, i) ==
    IF i >= Len(args) THEN <<>>
    ELSE IF i + 1 >= Len(args) THEN buildOrderSkipBad(args, i + 2)
    ELSE IF args[i + 1].kind = "str"
         THEN <<args[i + 1].s>> \o buildOrderSkipBad(args, i + 2)
    ELSE buildOrderSkipBad(args, i + 2)

\* the list order of Format: the keys of the complete pairs, in call order
RECURSIVE buildOrder(_, _)
buildOrder(args, i) ==
    IF i >= Len(args) THEN <<>>
    ELSE IF i + 1 >= Len(args) THEN buildOrder(args, i + 2)
    ELSE IF args[i + 1].kind = "str"
         THEN <<args[i + 1].s>> \o buildOrder(args, i + 2)
    ELSE <<badKeyAtIndex(i)>> \o buildOrder(args, i + 2)

\* what one hd.set call is recorded as: the key, the text handed to offset
\* trimmed, the cursor at the call and the decision taken
fieldOf(c, key, value) ==
    LET text == IF value.kind = "err"
                THEN value.s \o <<"\n">> \o value.stack
                ELSE Sprint(value)
        val == Trim(text, {"\n", " "})
    IN  [key |-> key, val |-> val, col |-> c,
         wrapped |-> offsetWraps(c, key, val)]

Terminal == {"done", "fatal", "panic"}

NoEntry == [x \in {} |-> StrArg(<<>>)]

NewCall(level, msg, args, trace) ==
    [pc |-> "validate", level |-> level, msg |-> msg, args |-> args,
     trace |-> trace, diag |-> <<>>, entry |-> NoEntry, buf |-> <<>>,
     context |-> <<>>, color |-> <<>>, walked |-> <<>>, order |-> <<>>,
     k |-> 1, fields |-> <<>>]

Idle == [NewCall("Debug", <<>>, <<>>, <<>>) EXCEPT !.pc = "idle"]

\* lines 239-260
stepValidate(st, c) ==
    LET v == validateKeys(st.args, 0, <<>>)
    IN  [st |-> [st EXCEPT !.diag = v.diag,
                           !.pc = IF v.outcome = "ok" THEN "begin"
                                  ELSE v.outcome],
         col |-> c]

\* lines 262-272: the canonical entry, the cursor reset, the timestamp
stepBegin(st, c) ==
    LET entry == LogEntry(st.level, st.msg, st.args)
        b == bufWrite(writeString(bufWrite([buf |-> st.buf, col |-> 0],
                                           theme.Misc),
                                  Sprint(entry[timeKey])),
                      Reset)
    IN  [st |-> [st EXCEPT !.entry = entry, !.buf = b.buf, !.pc = "ctx"],
         col |-> b.col]

\* line 275
stepContext(st, c) ==
    LET r == getLevelContext(st.level, st.trace)
    IN  [st |-> [st EXCEPT !.context = r.context, !.color = r.color,
                           !.walked = r.walked, !.pc = "level"],
         col |-> c]

\* one hd.set call of Format
stepSet(st, c, key, value, clr, next) ==
    LET b == set([buf |-> st.buf, col |-> c], key, value, clr)
    IN  [st |-> [st EXCEPT !.buf = b.buf,
                           !.fields = Append(@, fieldOf(c, key, value)),
                           !.pc = next],
         col |-> b.col]

\* lines 287-298
stepOrder(st, c) ==
    LET order == buildOrder(st.args, 0)
    IN  [st |-> [st EXCEPT !.order = order, !.k = 1,
                           !.pc = IF order = <<>> THEN "context"
                                  ELSE "fields"],
         col |-> c]

\* lines 300-309: one iteration of the loop over order
stepField(st, c) ==
    LET key == st.order[st.k]
        next == IF st.k = Len(st.order) THEN "context" ELSE "fields"
        r == isReservedKey(StrArg(key))
    IN  IF r.err THEN [st |-> [st EXCEPT !.pc = "panic"], col |-> c]
        ELSE IF r.isReserved
             THEN [st |-> [st EXCEPT !.k = @ + 1, !.pc = next], col |-> c]
        ELSE LET s == stepSet(st, c, key, st.entry[key], theme.Value, next)
             IN  [s EXCEPT !.st.k = @ + 1]

\* lines 311-323
stepWriteContext(st, c) ==
    LET ctx == st.context
        out == IF ctx # <<>>
               THEN st.buf \o <<"\n">> \o st.color \o ctx \o Reset
                    \o (IF ctx[Len(ctx)] # "\n" THEN <<"\n">> ELSE <<>>)
               ELSE st.buf \o <<"\n">>
    IN  [st |-> [st EXCEPT !.buf = out, !.pc = "done"], col |-> c]

\* the next step of an invocation
step(st, c) ==
    CASE st.pc = "validate" -> stepValidate(st, c)
      [] st.pc = "begin"    -> stepBegin(st, c)
      [] st.pc = "ctx"      -> stepContext(st, c)
      [] st.pc = "level"    ->
            stepSet(st, c, <<>>, st.entry[levelKey], st.color, "name")
      [] st.pc = "name"     ->
            stepSet(st, c, <<>>, st.entry[nameKey], theme.Misc, "msg")
      [] st.pc = "msg"      ->
            stepSet(st, c, <<>>, st.entry[messageKey], st.color, "order")
      [] st.pc = "order"    -> stepOrder(st, c)
      [] st.pc = "fields"   -> stepField(st, c)
      [] st.pc = "context"  -> stepWriteContext(st, c)
      [] OTHER              -> [st |-> st, col |-> c]

\* Format run by itself on a formatter nobody else uses
RECURSIVE runAlone(_, _)
runAlone(st, c) ==
    IF st.pc \in Terminal THEN st
    ELSE LET r == step(st, c) IN runAlone(r.st, r.col)

-----------------------------------------------------------------------------
(* Inputs *)

KeyA == StrArg(<<"a">>)
KeyB == StrArg(<<"b", "b">>)
KeyReserved == StrArg(timeKey)
KeyInt == IntArg(<<"7">>)
KeyComplex == StrArg(<<"q", "\"">>)
ArgKeys == {KeyA, KeyB, KeyReserved, KeyInt, KeyComplex}

ValX == StrArg(<<"x">>)
ValLines == StrArg(<<"y", "\n", "z">>)
ValErr == ErrArg(<<"e">>, <<"s", "1", "\n", "s", "2", "\n">>)
ArgValues == {ValX, ValLines, ValErr}

\* the args lists of length n: keys at the even (0-based) positions
ArgsOfLen(n) ==
    {a \in [1..n -> ArgKeys \cup ArgValues] :
        \A p \in 1..n : IF p % 2 = 1 THEN a[p] \in ArgKeys
                                     ELSE a[p] \in ArgValues}

ArgLists == UNION {ArgsOfLen(n) : n \in 0..MaxArgs}

Messages == {<<"h", "i">>}

\* Format called directly (no frame beyond the skip depths), and called
\* through the logger with one frame whose source cannot be read
FewTraces == {<<TRUE, TRUE>>, <<TRUE, TRUE, TRUE, FALSE, TRUE, TRUE>>}

AllTraces == UNION {[1..n -> BOOLEAN] : n \in 0..MaxStack}

Configs ==
    {[pretty |-> FALSE, maxCol |-> NarrowCol],
     [pretty |-> FALSE, maxCol |-> WideCol],
     [pretty |-> TRUE, maxCol |-> WideCol]}

Calls == {1, 2}

-----------------------------------------------------------------------------
(* Actions *)

InitWith(cfgs) ==
    /\ themeSrc = DefaultTheme
    /\ theme = parseTheme(DefaultTheme)
    /\ themeLoaded = TRUE
    /\ \E cfg \in cfgs : isPretty = cfg.pretty /\ maxCol = cfg.maxCol
    /\ col = 0
    /\ call = [c \in Calls |-> Idle]

Shared == <<themeSrc, theme, themeLoaded, isPretty, maxCol>>

\* a goroutine calls hd.Format(buf, level, msg, args) with an empty buffer
CallFormat(c, levels, msgs, argLists, traces) ==
    /\ call[c].pc = "idle"
    /\ \E level \in levels, msg \in msgs, args \in argLists, trace \in traces :
          call' = [call EXCEPT ![c] = NewCall(level, msg, args, trace)]
    /\ UNCHANGED <<Shared, col>>

\* the invocation c takes its next step on the shared formatter
Advance(c) ==
    LET r == step(call[c], col)
    IN  /\ call' = [call EXCEPT ![c] = r.st]
        /\ col' = r.col

Validate(c) ==
    /\ call[c].pc = "validate"
    /\ Advance(c)
    /\ UNCHANGED Shared

Begin(c) ==
    /\ call[c].pc = "begin"
    /\ Advance(c)
    /\ UNCHANGED Shared

GetLevelContext(c) ==
    /\ call[c].pc = "ctx"
    /\ Advance(c)
    /\ UNCHANGED Shared

SetLevel(c) ==
    /\ call[c].pc = "level"
    /\ Advance(c)
    /\ UNCHANGED Shared

SetName(c) ==
    /\ call[c].pc = "name"
    /\ Advance(c)
    /\ UNCHANGED Shared

SetMessage(c) ==
    /\ call[c].pc = "msg"
    /\ Advance(c)
    /\ UNCHANGED Shared

BuildOrder(c) ==
    /\ call[c].pc = "order"
    /\ Advance(c)
    /\ UNCHANGED Shared

SetField(c) ==
    /\ call[c].pc = "fields"
    /\ Advance(c)
    /\ UNCHANGED Shared

WriteContext(c) ==
    /\ call[c].pc = "context"
    /\ Advance(c)
    /\ UNCHANGED Shared

Run(c) ==
    \/ Validate(c)
    \/ Begin(c)
    \/ GetLevelContext(c)
    \/ SetLevel(c)
    \/ SetName(c)
    \/ SetMessage(c)
    \/ BuildOrder(c)
    \/ SetField(c)
    \/ WriteContext(c)

\* one Format call at a time on the formatter
Init == InitWith(Configs)

Next ==
    \/ CallFormat(1, Levels, Messages, ArgLists, FewTraces)
    \/ Run(1)

Spec == Init /\ [][Next]_vars

\* the call stack in full: few args lists, every trace up to MaxStack frames
StackArgLists == {<<>>, <<KeyA, ValX>>}

NextStack ==
    \/ CallFormat(1, Levels, Messages, StackArgLists, AllTraces)
    \/ Run(1)

SpecStack == Init /\ [][NextStack]_vars

\* two goroutines call Format on the same formatter, each with its own
\* buffer; nothing in Format orders their steps
SharedArgLists == {<<>>, <<KeyB, ValX>>}

NextShared ==
    \E c \in Calls :
        \/ CallFormat(c, {"Info"}, Messages, SharedArgLists, {<<TRUE, TRUE>>})
        \/ Run(c)

InitShared == InitWith({[pretty |-> FALSE, maxCol |-> NarrowCol]})

SpecShared == InitShared /\ [][NextShared]_vars

-----------------------------------------------------------------------------
(* Theme configuration *)

EntryNames == {<<"*">>, <<"key">>, <<"ERR">>}
EntryStyles == {<<"red">>, <<"blue">>, <<"off">>, <<"reset">>}

\* an empty entry, a bare name, name=style, and name=style=style
ThemeEntries ==
    {<<>>} \cup EntryNames
        \cup {n \o <<"=">> \o s : n \in EntryNames, s \in EntryStyles}
        \cup {n \o <<"=", "red", "=", "blue">> : n \in EntryNames}

RECURSIVE Join(_, _)
Join(ss, sep) ==
    IF ss = <<>> THEN <<>>
    ELSE IF Len(ss) = 1 THEN ss[1]
    ELSE ss[1] \o sep \o Join(Tail(ss), sep)

\* the theme strings of at most max entries
ThemeStrings(max) ==
    UNION {{Join(es, <<",">>) : es \in [1..n -> ThemeEntries]} :
              n \in 0..max}

NoTheme ==
    [Key |-> <<>>, Value |-> <<>>, Misc |-> <<>>, Source |-> <<>>,
     Debug |-> <<>>, Warn |-> <<>>, Info |-> <<>>, Error |-> <<>>]

InitTheme ==
    /\ themeSrc = <<>>
    /\ theme = NoTheme
    /\ themeLoaded = FALSE
    /\ isPretty = FALSE
    /\ maxCol = WideCol
    /\ col = 0
    /\ call = [c \in Calls |-> Idle]

\* theme = parseTheme(s), once, when the package is configured
LoadTheme ==
    /\ ~themeLoaded
    /\ \E s \in ThemeStrings(MaxEntries) :
          /\ themeSrc' = s
          /\ theme' = parseTheme(s)
    /\ themeLoaded' = TRUE
    /\ UNCHANGED <<isPretty, maxCol, col, call>>

NextTheme == LoadTheme

SpecTheme == InitTheme /\ [][NextTheme]_vars

-----------------------------------------------------------------------------
(* Vocabulary of the properties *)

Started(c) == call[c].pc \notin {"idle", "validate"}
Rendering(c) ==
    call[c].pc \in {"ctx", "level", "name", "msg", "order", "fields", "context"}

\* the (1-based) positions of the keys of an args list
KeyPositions(args) == {p \in 1..Len(args) : p % 2 = 1}
\* the positions of the keys that have a value
PairPositions(args) == {p \in KeyPositions(args) : p < Len(args)}

IsReservedAt(args, p) == args[p].kind = "str" /\ args[p].s \in ReservedKeys
IsComplexAt(args, p) ==
    /\ args[p].kind = "str"
    /\ args[p].s \notin ReservedKeys
    /\ \E n \in 1..Len(args[p].s) : args[p].s[n] \in {"\"", "\\", "\n"}
IsNonStringAt(args, p) == args[p].kind # "str"

RECURSIVE Concat(_)
Concat(ss) == IF ss = <<>> THEN <<>> ELSE Head(ss) \o Concat(Tail(ss))

\* an element of a buffer that is an escape sequence, not a character
IsEscape(ch) ==
    ch \in {"^[0m", "^[m", "^[31m", "^[34m", "^[96m", "^[94m", "^[93m",
            "^[92m", "^[91m"}

\* how often the element ch occurs in s
Count(s, ch) == Cardinality({n \in 1..Len(s) : s[n] = ch})

\* the characters on the last line of the buffer, escape sequences excluded
LineLen(b) ==
    LET breaks == {n \in 1..Len(b) : b[n] = "\n"}
        from == IF breaks = {} THEN 0
                ELSE CHOOSE n \in breaks : \A q \in breaks : q <= n
    IN  Cardinality({n \in (from + 1)..Len(b) : ~IsEscape(b[n])})

\* the key labels in the buffer, in the order written: each is what stands
\* between the key color and the assignment token
KeyLabels(b) ==
    LET idx == [n \in 1..Len(b) |-> n]
        starts == SelectSeq(idx, LAMBDA n : <<b[n]>> = theme.Key)
    IN  [j \in 1..Len(starts) |->
            LET e == IndexOf(b, Reset[1], starts[j])
            IN  SubSeq(b, starts[j] + 1, e - 1 - Len(assignmentChar))]

IsPrefix(s, r) == Len(s) <= Len(r) /\ s = SubSeq(r, 1, Len(s))

\* the keys of the fields recorded so far
FieldKeys(c) == [j \in 1..Len(call[c].fields) |-> call[c].fields[j].key]

-----------------------------------------------------------------------------
(* C1. Format on an even-length args list without reserved keys ends with  *)
(* the buffer closed by exactly one line break: the last byte is a newline *)
(* and the byte before it is not.                                          *)
C1_OneTrailingNewline ==
    \A c \in Calls :
        (call[c].pc = "done" /\ Len(call[c].args) % 2 = 0) =>
            LET b == call[c].buf
            IN  /\ b # <<>>
                /\ b[Len(b)] = "\n"
                /\ Len(b) > 1 => b[Len(b) - 1] # "\n"

(* C2. For an odd-length args list the rendered record holds the           *)
(* imbalance sentinel exactly once.                                        *)
C2_SentinelOnce ==
    \A c \in Calls :
        (call[c].pc = "done" /\ Len(call[c].args) % 2 = 1) =>
            Count(call[c].buf, warnImbalancedKey[1]) = 1

(* C3 as stated. Whenever any key position holds a reserved key, Format    *)
(* ends fatally with nothing written, whatever the other keys are.         *)
C3_ReservedAlwaysFatal ==
    \A c \in Calls :
        (Started(c)
            /\ \E p \in KeyPositions(call[c].args) :
                  IsReservedAt(call[c].args, p)) =>
            call[c].pc = "fatal" /\ call[c].buf = <<>>

(* C3 amended. When a key position holds a reserved key and no earlier key *)
(* position holds an unquotable key, Format ends fatally with nothing      *)
(* written (non-string and ordinary keys before it change nothing); when   *)
(* an unquotable key comes first, Format panics instead, also with nothing *)
(* written.                                                                *)
C3_FirstOffenceDecides ==
    \A c \in Calls :
        Started(c) =>
            \A p \in KeyPositions(call[c].args) :
                LET args == call[c].args
                    clean == \A q \in KeyPositions(args) :
                                q < p => /\ ~IsReservedAt(args, q)
                                         /\ ~IsComplexAt(args, q)
                IN  /\ (IsReservedAt(args, p) /\ clean) =>
                          call[c].pc = "fatal" /\ call[c].buf = <<>>
                    /\ (IsComplexAt(args, p) /\ clean) =>
                          call[c].pc = "panic" /\ call[c].buf = <<>>

C3_Witness ==
    \E c \in Calls :
        /\ call[c].pc = "fatal"
        /\ Len(call[c].args) = 4
        /\ IsNonStringAt(call[c].args, 1)
        /\ IsReservedAt(call[c].args, 3)
        /\ call[c].diag = <<0>>

(* C4. With a '*' entry in the theme string, every slot that has its own   *)
(* entry holds the resolved style of that entry and every other slot the   *)
(* resolved style of the wildcard.                                         *)
C4_SlotEntryWins ==
    themeLoaded =>
        LET m == parseKVList(themeSrc, ",")
        IN  <<"*">> \in DOMAIN m =>
                \A slot \in Slots :
                    theme[slot] = IF SlotName[slot] \in DOMAIN m
                                  THEN ColorCode(m[SlotName[slot]])
                                  ELSE ColorCode(m[<<"*">>])

\* the frames (1-based) an error context is built from, innermost first
RECURSIVE ResolvedFrom(_, _)
ResolvedFrom(trace, n) ==
    IF n > Len(trace) THEN <<>>
    ELSE (IF trace[n] THEN <<n>> ELSE <<>>) \o ResolvedFrom(trace, n + 1)

CallOrder(args) == [j \in 1..(Len(args) \div 2) |-> args[2 * j - 1].s]

C7_SameAsAlone ==
    \A c \in Calls :
        call[c].pc = "done" =>
            call[c].buf =
                runAlone(NewCall(call[c].level, call[c].msg, call[c].args,
                                 call[c].trace), 0).buf

\* what writing a field on the current line adds to it
InlineLen(f) ==
    Len(Separator)
        + (IF f.key # <<>> THEN Len(f.key) + Len(assignmentChar) ELSE 0)
        + Len(f.val)

(* C8. A field starts a new line exactly when pretty mode is on and the    *)
(* key is non-empty, or writing it inline would take the line past maxCol. *)
C8_WrapsExactlyWhenTooLong ==
    \A c \in Calls :
        \A j \in 1..Len(call[c].fields) :
            LET f == call[c].fields[j]
            IN  f.wrapped <=>
                    \/ isPretty /\ f.key # <<>>
                    \/ f.col + InlineLen(f) > maxCol

(* C9. While a record is rendered, hd.col is the number of visible         *)
(* characters written since the last line break of the record.             *)
C9_ColIsLinePosition ==
    \A c \in Calls : Rendering(c) => col = LineLen(call[c].buf)

\* the non-string keys (0-based indices) of an args list, in call order
RECURSIVE NonStringFrom(_, _)
NonStringFrom(args, p) ==
    IF p > Len(args) THEN <<>>
    ELSE (IF IsNonStringAt(args, p) THEN <<p - 1>> ELSE <<>>)
            \o NonStringFrom(args, p + 2)

====
